---- MODULE Spec2Model ----
(***************************************************************************)
(* Model of the rule-matching core of LR3_RBS.py: eval_condition (the      *)
(* condition evaluator) and evaluate_rules (the rule matcher), together    *)
(* with the embedded rule set RULES.                                       *)
(*                                                                         *)
(* Python values are tagged records [t, v]:                                *)
(*   Num(n)  a number (int, float or bool); cgpa is held in hundredths,    *)
(*           an order-preserving scaling of the float of the source;       *)
(*   Str(k)  the k-th string of an alphabetically ordered list of strings, *)
(*           so that Str(j) < Str(k) in Python iff j < k;                   *)
(*   NoneV   Python's None.                                                *)
(* A dict is modelled with the set of keys it holds: a rule is a record    *)
(* whose field `keys` lists the keys present, an applicant is a function   *)
(* whose DOMAIN is the set of its keys.                                    *)
(***************************************************************************)
EXTENDS Integers, Sequences, FiniteSets, TLC

VARIABLES
    applicant,       \* argument `applicant` of evaluate_rules
    rules,           \* argument `rules` of evaluate_rules
    pc,              \* position of the caller / of evaluate_rules
    i,               \* index of the rule the for loop of line 89 is at
    matched,         \* local `matched`
    matched_sorted,  \* local `matched_sorted`
    selected,        \* local `selected`
    exc,             \* exception that left evaluate_rules, or "none"
    calls,           \* number of calls of evaluate_rules made so far
    last,            \* outcome of the previous completed call
    applicant0,      \* the applicant as the caller built it
    rules0,          \* the rule collection as the caller built it
    value,           \* argument `value` of eval_condition
    op,              \* argument `op` of eval_condition
    target,          \* argument `target` of eval_condition
    result           \* what eval_condition returned (or raised)

vars == <<applicant, rules, pc, i, matched, matched_sorted, selected, exc,
          calls, last, applicant0, rules0, value, op, target, result>>

evalVars == <<applicant, rules, pc, i, matched, matched_sorted, selected, exc,
              calls, last, applicant0, rules0>>
condVars == <<value, op, target, result>>

----------------------------------------------------------------------------
(* Bounds *)

MaxRules == 2        \* longest rule collection
MaxCalls == 2        \* calls of evaluate_rules on the same arguments
MaxNum   == 2        \* numbers of the condition evaluator range over -1..MaxNum
MaxStr   == 2        \* strings Str(1)..Str(MaxStr)

----------------------------------------------------------------------------
(* Python values *)

Num(n) == [t |-> "num", v |-> n]
Str(k) == [t |-> "str", v |-> k]
NoneV  == [t |-> "none", v |-> 0]

\* value `a` and value `b` support <, <=, >, >= between them
Orderable(a, b) == a.t = b.t /\ a.t \in {"num", "str"}

\* PyCompare with the >= branch comparing with >
PyCompareStrict(a, o, b) ==
    IF o = "==" THEN (IF a = b THEN "True" ELSE "False")
    ELSE IF ~Orderable(a, b) THEN "TypeError"
    ELSE IF o = ">=" THEN (IF a.v > b.v THEN "True" ELSE "False")
    ELSE IF o = "<=" THEN (IF a.v <= b.v THEN "True" ELSE "False")
    ELSE IF o = ">"  THEN (IF a.v >  b.v THEN "True" ELSE "False")
    ELSE (IF a.v < b.v THEN "True" ELSE "False")

\* the Python comparison `a o b`: "True", "False" or the exception it raises
PyCompare(a, o, b) ==
    IF o = "==" THEN (IF a = b THEN "True" ELSE "False")
    ELSE IF ~Orderable(a, b) THEN "TypeError"
    ELSE IF o = ">=" THEN (IF a.v >= b.v THEN "True" ELSE "False")
    ELSE IF o = "<=" THEN (IF a.v <= b.v THEN "True" ELSE "False")
    ELSE IF o = ">"  THEN (IF a.v >  b.v THEN "True" ELSE "False")
    ELSE (IF a.v < b.v THEN "True" ELSE "False")

SupportedOps == {">=", "<=", ">", "<", "=="}

\* eval_condition without its try/except: the exception leaves the function
eval_condition_no_except(val, o, tgt) ==
    IF o \in SupportedOps THEN PyCompare(val, o, tgt) ELSE "False"

\* eval_condition: the five branches inside try, except Exception -> False,
\* and the final return False for any other operator
eval_condition(val, o, tgt) ==
    IF o \in SupportedOps
    THEN (IF PyCompare(val, o, tgt) = "TypeError" THEN "False"
          ELSE PyCompare(val, o, tgt))
    ELSE "False"

----------------------------------------------------------------------------
(* Rules, actions and applicants *)

\* an action is a dict too: `keys` lists the keys it holds, and the field of
\* a key it does not hold is ""
ActionKeys == {"decision", "reason"}

\* value held by the fields of a rule record whose key is absent
NoAction == [keys |-> {}, decision |-> "", reason |-> ""]

\* the default action built without its reason
DefaultActionNoReason == [keys |-> {"decision"}, decision |-> "NO_MATCH", reason |-> ""]

\* the synthetic default of lines 109-112
DefaultAction ==
    [keys |-> ActionKeys, decision |-> "NO_MATCH",
     reason |-> "No rule matched. Candidate requires manual review or different policy."]

\* rule.get("conditions", [])
GetConditions(rule) ==
    IF "conditions" \in rule.keys THEN rule.conditions ELSE <<>>

\* a sort key that ignores the rule's priority
GetPriorityIgnored(r) == Num(0)

\* r.get("priority", 0), the sort key of line 105
GetPriority(r) ==
    IF "priority" \in r.keys THEN r.priority ELSE Num(0)

\* the loop body with a missing field skipping the condition (continue)
\* instead of failing the rule
RECURSIVE CheckConditionsSkipMissing(_, _, _)
CheckConditionsSkipMissing(app, conds, k) ==
    IF k > Len(conds) THEN "match"
    ELSE LET cond == conds[k] IN
         IF Len(cond) # 3 THEN "ValueError"
         ELSE IF cond[1] \notin DOMAIN app
              THEN CheckConditionsSkipMissing(app, conds, k + 1)
         ELSE LET r == eval_condition(app[cond[1]], cond[2], cond[3]) IN
              IF r = "True" THEN CheckConditionsSkipMissing(app, conds, k + 1)
              ELSE IF r = "False" THEN "nomatch"
              ELSE r

\* Lines 90-100 for one rule, from its k-th condition on: "match" (all_true
\* stays True), "nomatch" (all_true = False; break), or the exception that
\* leaves the loop: ValueError when `field, op, target = cond` cannot unpack.
RECURSIVE CheckConditions(_, _, _)
CheckConditions(app, conds, k) ==
    IF k > Len(conds) THEN "match"
    ELSE LET cond == conds[k] IN
         IF Len(cond) # 3 THEN "ValueError"
         ELSE IF cond[1] \notin DOMAIN app THEN "nomatch"
         ELSE LET r == eval_condition(app[cond[1]], cond[2], cond[3]) IN
              IF r = "True" THEN CheckConditions(app, conds, k + 1)
              ELSE IF r = "False" THEN "nomatch"
              ELSE r

\* sorted() compares keys with <: with two or more elements it raises
\* TypeError as soon as two keys cannot be ordered
SortRaises(ms) ==
    \E j, k \in 1..Len(ms) :
        j # k /\ ~Orderable(GetPriority(ms[j]), GetPriority(ms[k]))

\* an insertion that puts r before the elements of equal key: not stable
RECURSIVE InsertDescUnstable(_, _)
InsertDescUnstable(sorted, r) ==
    IF sorted = <<>> THEN <<r>>
    ELSE IF GetPriority(Head(sorted)).v <= GetPriority(r).v
         THEN <<r>> \o sorted
         ELSE <<Head(sorted)>> \o InsertDescUnstable(Tail(sorted), r)

\* r goes before the first element whose key is smaller than its own
RECURSIVE InsertDesc(_, _)
InsertDesc(sorted, r) ==
    IF sorted = <<>> THEN <<r>>
    ELSE IF GetPriority(Head(sorted)).v < GetPriority(r).v
         THEN <<r>> \o sorted
         ELSE <<Head(sorted)>> \o InsertDesc(Tail(sorted), r)

\* sorted() without reverse=True: by key ascending
RECURSIVE InsertAsc(_, _)
InsertAsc(sorted, r) ==
    IF sorted = <<>> THEN <<r>>
    ELSE IF GetPriority(r).v < GetPriority(Head(sorted)).v
         THEN <<r>> \o sorted
         ELSE <<Head(sorted)>> \o InsertAsc(Tail(sorted), r)

RECURSIVE SortedAscending(_)
SortedAscending(ms) ==
    IF ms = <<>> THEN <<>>
    ELSE InsertAsc(SortedAscending(SubSeq(ms, 1, Len(ms) - 1)), ms[Len(ms)])

\* sorted(matched, key=lambda r: r.get("priority", 0), reverse=True):
\* a new list, by key descending, equal keys in their order in `ms`
RECURSIVE SortedByPriority(_)
SortedByPriority(ms) ==
    IF ms = <<>> THEN <<>>
    ELSE InsertDesc(SortedByPriority(SubSeq(ms, 1, Len(ms) - 1)), ms[Len(ms)])

----------------------------------------------------------------------------
(* evaluate_rules, one action per step of the function *)

Outcome == [exc |-> exc, selected |-> selected, matched_sorted |-> matched_sorted]
NoOutcome == [exc |-> "none", selected |-> NoAction, matched_sorted |-> <<>>]

\* a call whose `matched` is not a fresh list (a list shared between calls)
CallKeepMatched ==
    /\ pc \in {"idle", "done", "raised"}
    /\ calls < MaxCalls
    /\ calls' = calls + 1
    /\ last' = IF pc = "idle" THEN last ELSE Outcome
    /\ matched_sorted' = <<>>
    /\ selected' = NoAction
    /\ exc' = "none"
    /\ i' = 1
    /\ pc' = "loop"
    /\ UNCHANGED <<matched, applicant, rules, applicant0, rules0, condVars>>

\* the caller calls evaluate_rules(applicant, rules); line 88: matched = []
Call ==
    /\ pc \in {"idle", "done", "raised"}
    /\ calls < MaxCalls
    /\ calls' = calls + 1
    /\ last' = IF pc = "idle" THEN last ELSE Outcome
    /\ matched' = <<>>
    /\ matched_sorted' = <<>>
    /\ selected' = NoAction
    /\ exc' = "none"
    /\ i' = 1
    /\ pc' = "loop"
    /\ UNCHANGED <<applicant, rules, applicant0, rules0, condVars>>

\* the loop leaving at the first rule that matches
LoopStepStopAtMatch ==
    /\ pc = "loop"
    /\ i <= Len(rules)
    /\ LET rule == rules[i]
           all_true == CheckConditions(applicant, GetConditions(rule), 1)
       IN IF all_true \notin {"match", "nomatch"}
          THEN /\ exc' = all_true
               /\ pc' = "raised"
               /\ UNCHANGED <<matched, i>>
          ELSE /\ matched' = IF all_true = "match" THEN Append(matched, rule)
                             ELSE matched
               /\ i' = IF all_true = "match" THEN Len(rules) + 1 ELSE i + 1
               /\ UNCHANGED <<exc, pc>>
    /\ UNCHANGED <<applicant, rules, matched_sorted, selected, calls, last,
                   applicant0, rules0, condVars>>

\* one iteration of `for rule in rules` (lines 89-102)
LoopStep ==
    /\ pc = "loop"
    /\ i <= Len(rules)
    /\ LET rule == rules[i]
           all_true == CheckConditions(applicant, GetConditions(rule), 1)
       IN IF all_true \notin {"match", "nomatch"}
          THEN /\ exc' = all_true
               /\ pc' = "raised"
               /\ UNCHANGED <<matched, i>>
          ELSE /\ matched' = IF all_true = "match" THEN Append(matched, rule)
                             ELSE matched
               /\ i' = i + 1
               /\ UNCHANGED <<exc, pc>>
    /\ UNCHANGED <<applicant, rules, matched_sorted, selected, calls, last,
                   applicant0, rules0, condVars>>

\* the selection reading the unsorted list: matched[0]["action"]
SortAndSelectFromMatched ==
    /\ pc = "loop"
    /\ i > Len(rules)
    /\ IF SortRaises(matched)
       THEN /\ exc' = "TypeError"
            /\ pc' = "raised"
            /\ UNCHANGED <<matched_sorted, selected>>
       ELSE LET s == SortedByPriority(matched) IN
            /\ matched_sorted' = s
            /\ IF s # <<>>
               THEN IF "action" \in matched[1].keys
                    THEN /\ selected' = matched[1].action
                         /\ pc' = "done"
                         /\ UNCHANGED exc
                    ELSE /\ exc' = "KeyError"
                         /\ pc' = "raised"
                         /\ UNCHANGED selected
               ELSE /\ selected' = DefaultAction
                    /\ pc' = "done"
                    /\ UNCHANGED exc
    /\ UNCHANGED <<applicant, rules, matched, i, calls, last,
                   applicant0, rules0, condVars>>

\* after the loop: sort, select and return (lines 105-113)
SortAndSelect ==
    /\ pc = "loop"
    /\ i > Len(rules)
    /\ IF SortRaises(matched)
       THEN /\ exc' = "TypeError"
            /\ pc' = "raised"
            /\ UNCHANGED <<matched_sorted, selected>>
       ELSE LET s == SortedByPriority(matched) IN
            /\ matched_sorted' = s
            /\ IF s # <<>>
               THEN IF "action" \in s[1].keys
                    THEN /\ selected' = s[1].action
                         /\ pc' = "done"
                         /\ UNCHANGED exc
                    ELSE /\ exc' = "KeyError"
                         /\ pc' = "raised"
                         /\ UNCHANGED selected
               ELSE /\ selected' = DefaultAction
                    /\ pc' = "done"
                    /\ UNCHANGED exc
    /\ UNCHANGED <<applicant, rules, matched, i, calls, last,
                   applicant0, rules0, condVars>>

Next == Call \/ LoopStep \/ SortAndSelect

----------------------------------------------------------------------------
(* Inputs *)

Fields == {"cgpa", "family_income"}

\* a rule at position n of the collection: its name and its action are those
\* of the position, so that every rule of a collection can be told apart
RuleName(n) == "R" \o ToString(n)
RuleAction(n, a) ==
    IF a = "decision only"
    THEN [keys |-> {"decision"}, decision |-> "D" \o ToString(n), reason |-> ""]
    ELSE [keys |-> ActionKeys, decision |-> "D" \o ToString(n),
          reason |-> "reason " \o ToString(n)]

MkRule(n, hasPriority, priority, hasConditions, conditions, act) ==
    [keys |-> {"name"} \cup (IF hasPriority THEN {"priority"} ELSE {})
                       \cup (IF hasConditions THEN {"conditions"} ELSE {})
                       \cup (IF act # "absent" THEN {"action"} ELSE {}),
     name |-> RuleName(n),
     priority |-> IF hasPriority THEN priority ELSE Num(0),
     conditions |-> IF hasConditions THEN conditions ELSE <<>>,
     action |-> IF act # "absent" THEN RuleAction(n, act) ELSE NoAction]

condCgpa   == <<"cgpa", ">=", Num(3)>>
condIncome == <<"family_income", "<=", Num(2)>>
condBadOp  == <<"cgpa", "=>", Num(3)>>
condArity  == <<"cgpa", ">=">>

\* what a rule of the well-formed inputs is made of: a priority (or none) and
\* a condition list (or none)
Absent == "absent"
Priorities == {Absent, "-1", "0", "1"}
PriorityValue(p) == IF p = "-1" THEN Num(-1) ELSE IF p = "1" THEN Num(1)
                    ELSE IF p = "s" THEN Str(1) ELSE Num(0)
CondLists == {<<>>, <<condCgpa>>, <<condIncome>>, <<condCgpa, condIncome>>,
              <<condCgpa, condBadOp>>}
CondChoices == {[has |-> FALSE, conds |-> <<>>]}
               \cup {[has |-> TRUE, conds |-> c] : c \in CondLists}

\* what the action of a rule can be: a dict with decision and reason, a dict
\* with a decision only, or no action key at all
FullAction == "full"
ActionChoices == {FullAction, "decision only", "absent"}

Shapes == {[p |-> p, c |-> c, a |-> FullAction] : p \in Priorities, c \in CondChoices}

\* rules off the documented schema: a condition that is no triple, an action
\* without a reason or no action, a string priority
AnyCondLists == {<<condCgpa>>, <<condIncome, condArity>>, <<condArity>>}
AnyShapes == {[p |-> p, c |-> [has |-> TRUE, conds |-> c], a |-> a] :
                 p \in {Absent, "1", "s"}, c \in AnyCondLists, a \in ActionChoices}
              \cup {[p |-> p, c |-> [has |-> TRUE, conds |-> c], a |-> FullAction] :
                 p \in {"1"}, c \in {<<condCgpa, condBadOp>>}}

RuleOf(n, sh) == MkRule(n, sh.p # Absent, PriorityValue(sh.p), sh.c.has, sh.c.conds, sh.a)

RuleSeqs(shapes) ==
    UNION {{[n \in 1..len |-> RuleOf(n, f[n])] : f \in [1..len -> shapes]} :
           len \in 0..MaxRules}

Applicants ==
    {[cgpa |-> Num(3), family_income |-> Num(2)],
     [cgpa |-> Num(2), family_income |-> Num(3)],
     [cgpa |-> Num(3)],
     [cgpa |-> Str(1), family_income |-> Num(2)],
     [f \in {} |-> Num(0)]}

InitCondIdle ==
    /\ value = NoneV /\ op = "" /\ target = NoneV /\ result = "pending"

InitWith(apps, ruleSeqs) ==
    /\ applicant \in apps
    /\ rules \in ruleSeqs
    /\ applicant0 = applicant
    /\ rules0 = rules
    /\ pc = "idle"
    /\ i = 0
    /\ matched = <<>>
    /\ matched_sorted = <<>>
    /\ selected = NoAction
    /\ exc = "none"
    /\ calls = 0
    /\ last = NoOutcome
    /\ InitCondIdle

Init == InitWith(Applicants, RuleSeqs(Shapes))
Spec == Init /\ [][Next]_vars

InitAny == InitWith(Applicants, RuleSeqs(AnyShapes))
SpecAny == InitAny /\ [][Next]_vars

----------------------------------------------------------------------------
(* The embedded rule set (RULES_JSON, lines 5-56), cgpa in hundredths; the   *)
(* dash of the fourth name is written as an ASCII hyphen.                  *)

AllKeys == {"name", "priority", "conditions", "action"}

RULES == <<
    [keys |-> AllKeys, name |-> "Top merit candidate", priority |-> Num(100),
     conditions |-> << <<"cgpa", ">=", Num(370)>>,
                       <<"co_curricular_score", ">=", Num(80)>>,
                       <<"family_income", "<=", Num(8000)>>,
                       <<"disciplinary_actions", "==", Num(0)>> >>,
     action |-> [keys |-> ActionKeys, decision |-> "AWARD_FULL",
                 reason |-> "Excellent academic & co-curricular performance, with acceptable need"]],
    [keys |-> AllKeys, name |-> "Good candidate - partial scholarship", priority |-> Num(80),
     conditions |-> << <<"cgpa", ">=", Num(330)>>,
                       <<"co_curricular_score", ">=", Num(60)>>,
                       <<"family_income", "<=", Num(12000)>>,
                       <<"disciplinary_actions", "<=", Num(1)>> >>,
     action |-> [keys |-> ActionKeys, decision |-> "AWARD_PARTIAL",
                 reason |-> "Good academic & involvement record with moderate need"]],
    [keys |-> AllKeys, name |-> "Need-based review", priority |-> Num(70),
     conditions |-> << <<"cgpa", ">=", Num(250)>>,
                       <<"family_income", "<=", Num(4000)>> >>,
     action |-> [keys |-> ActionKeys, decision |-> "REVIEW",
                 reason |-> "High need but borderline academic score"]],
    [keys |-> AllKeys, name |-> "Low CGPA - not eligible", priority |-> Num(95),
     conditions |-> << <<"cgpa", "<", Num(250)>> >>,
     action |-> [keys |-> ActionKeys, decision |-> "REJECT",
                 reason |-> "CGPA below minimum scholarship requirement"]],
    [keys |-> AllKeys, name |-> "Serious disciplinary record", priority |-> Num(90),
     conditions |-> << <<"disciplinary_actions", ">=", Num(2)>> >>,
     action |-> [keys |-> ActionKeys, decision |-> "REJECT",
                 reason |-> "Too many disciplinary records"]] >>

\* the applicant the form builds (lines 133-138); every threshold of RULES
\* is in the grids with its two neighbours' sides
CgpaGrid   == {0, 200, 249, 250, 270, 329, 330, 369, 370, 390, 400}
ScoreGrid  == {0, 59, 60, 79, 80, 90, 100}
IncomeGrid == {0, 3000, 4000, 4001, 8000, 8001, 12000, 12001}
DisciplinaryGrid == {0, 1, 2, 3}

FormApplicants ==
    {[cgpa |-> Num(c), co_curricular_score |-> Num(s),
      family_income |-> Num(f), disciplinary_actions |-> Num(d)] :
        c \in CgpaGrid, s \in ScoreGrid, f \in IncomeGrid, d \in DisciplinaryGrid}

InitEmbedded == InitWith(FormApplicants, {RULES})
SpecEmbedded == InitEmbedded /\ [][Next]_vars

----------------------------------------------------------------------------
(* The condition evaluator on its own *)

Values == {Num(n) : n \in -1..MaxNum} \cup {Str(k) : k \in 1..MaxStr} \cup {NoneV}
Ops == SupportedOps \cup {"!=", "=>", ""}

InitCond ==
    /\ value \in Values
    /\ op \in Ops
    /\ target \in Values
    /\ result = "pending"
    /\ applicant = [f \in {} |-> Num(0)]
    /\ rules = <<>>
    /\ applicant0 = applicant
    /\ rules0 = rules
    /\ pc = "idle"
    /\ i = 0
    /\ matched = <<>>
    /\ matched_sorted = <<>>
    /\ selected = NoAction
    /\ exc = "none"
    /\ calls = 0
    /\ last = NoOutcome

\* a call eval_condition(value, op, target)
EvalCondition ==
    /\ result = "pending"
    /\ result' = eval_condition(value, op, target)
    /\ UNCHANGED <<value, op, target, evalVars>>

NextCond == EvalCondition
SpecCond == InitCond /\ [][NextCond]_vars

----------------------------------------------------------------------------
(* Properties *)

\* rule R satisfies all its conditions against applicant A, as the
\* specification states it: every condition names a field A holds and
\* eval_condition is true of it; no conditions, or no condition list, is met
Satisfied(A, R) ==
    LET conds == IF "conditions" \in R.keys THEN R.conditions ELSE <<>> IN
    \A k \in 1..Len(conds) :
        /\ conds[k][1] \in DOMAIN A
        /\ eval_condition(A[conds[k][1]], conds[k][2], conds[k][3]) = "True"

SatisfiedNow(r) == Satisfied(applicant, r)
SatisfiedIdx == {n \in 1..Len(rules) : Satisfied(applicant, rules[n])}

InList(r, seq) == \E k \in 1..Len(seq) : seq[k] = r
Occurrences(r, seq) == Cardinality({k \in 1..Len(seq) : seq[k] = r})

\* the priority of a rule as a number, 0 when the rule has none
PriorityOf(r) == IF "priority" \in r.keys THEN r.priority.v ELSE 0

\* position in the input collection of a rule of the collection
Pos(r) == CHOOSE n \in 1..Len(rules) : rules[n] = r

HasMissingField(A, R) ==
    \E k \in 1..Len(R.conditions) : R.conditions[k][1] \notin DOMAIN A

\* C1: a rule is in the returned matched list iff every one of its
\* conditions names a field of the applicant and evaluates true; a missing
\* field fails the rule without an exception; no conditions always match.
C1_MatchIffAllConditions ==
    /\ pc # "raised"
    /\ pc = "done" =>
         \A n \in 1..Len(rules) :
             InList(rules[n], matched_sorted) <=> Satisfied(applicant, rules[n])

C1_Witness ==
    /\ pc = "done"
    /\ \E n, m \in 1..Len(rules) :
         /\ HasMissingField(applicant, rules[n])
         /\ ~InList(rules[n], matched_sorted)
         /\ "conditions" \notin rules[m].keys
         /\ InList(rules[m], matched_sorted)

\* C2: when some rule matches, the returned action is that of the matched
\* rule of highest priority, the earliest in the input among those.
C2_SelectedIsTopEarliest ==
    (pc = "done" /\ SatisfiedIdx # {}) =>
        \E n \in SatisfiedIdx :
            /\ selected = rules[n].action
            /\ \A m \in SatisfiedIdx :
                 \/ PriorityOf(rules[m]) < PriorityOf(rules[n])
                 \/ (PriorityOf(rules[m]) = PriorityOf(rules[n]) /\ n <= m)

C2_Witness ==
    /\ pc = "done"
    /\ SatisfiedIdx = {1, 2}
    /\ PriorityOf(rules[1]) < PriorityOf(rules[2])
    /\ selected = rules[2].action

\* C3: the matched list holds exactly the rules that satisfy their
\* conditions, each once; a match never ends the iteration over the rules.
C3_Complete ==
    /\ pc = "loop" =>
         matched = SelectSeq(SubSeq(rules, 1, i - 1), SatisfiedNow)
    /\ pc = "done" =>
         /\ Len(matched_sorted) = Cardinality(SatisfiedIdx)
         /\ \A n \in 1..Len(rules) :
              Occurrences(rules[n], matched_sorted) =
                  (IF n \in SatisfiedIdx THEN 1 ELSE 0)

C3_Witness ==
    /\ pc = "done"
    /\ Len(rules) >= 2
    /\ SatisfiedIdx = 1..Len(rules)
    /\ Len(matched_sorted) = Len(rules)
    /\ selected = rules[1].action

\* C4: the returned matched list is in priority order, highest first (no
\* priority counting as 0), and rules of equal priority keep the order
\* they have in the input.
C4_SortedStable ==
    pc = "done" =>
        \A j, k \in 1..Len(matched_sorted) :
            j < k =>
                \/ PriorityOf(matched_sorted[j]) > PriorityOf(matched_sorted[k])
                \/ /\ PriorityOf(matched_sorted[j]) = PriorityOf(matched_sorted[k])
                   /\ Pos(matched_sorted[j]) < Pos(matched_sorted[k])

C4_Witness ==
    /\ pc = "done"
    /\ Len(matched_sorted) = 2
    /\ "priority" \notin matched_sorted[1].keys
    /\ "priority" \in matched_sorted[2].keys
    /\ matched_sorted[2].priority = Num(0)

\* rule R satisfies all its conditions against A, for a rule whose
\* conditions need not all be triples: a condition that is no triple is not met
SatisfiedTriples(A, R) ==
    LET conds == IF "conditions" \in R.keys THEN R.conditions ELSE <<>> IN
    \A k \in 1..Len(conds) :
        /\ Len(conds[k]) = 3
        /\ conds[k][1] \in DOMAIN A
        /\ eval_condition(A[conds[k][1]], conds[k][2], conds[k][3]) = "True"

NoneSatisfied == \A n \in 1..Len(rules) : ~SatisfiedTriples(applicant, rules[n])

IsFallback ==
    /\ matched_sorted = <<>>
    /\ selected.keys = {"decision", "reason"}
    /\ selected.decision = "NO_MATCH"
    /\ selected.reason =
         "No rule matched. Candidate requires manual review or different policy."

\* C5 as stated: when no rule matches, the matched list is empty and the
\* action is the NO_MATCH default with its fixed reason; the returned action
\* always has a decision and a reason.
C5_Original ==
    pc = "done" =>
        /\ "decision" \in selected.keys
        /\ "reason" \in selected.keys
        /\ NoneSatisfied => IsFallback

\* C5 amended: when no rule matches, the matched list is empty and the
\* action is the NO_MATCH default with its decision and its fixed reason;
\* when a rule matches, the returned action is the action of the first rule
\* of the matched list as that rule holds it, so it has a decision and a
\* reason exactly when that rule's action has them.
C5_Fallback ==
    pc = "done" =>
        /\ NoneSatisfied => IsFallback
        /\ ~NoneSatisfied =>
             /\ matched_sorted # <<>>
             /\ selected = matched_sorted[1].action

C5_Witness ==
    /\ pc = "done"
    /\ Len(rules) = MaxRules
    /\ \E n \in 1..Len(rules) : rules[n].action.keys = {"decision"}
    /\ selected.decision = "NO_MATCH"
    /\ matched_sorted = <<>>

\* what the comparison `a o b` is in mathematics, for a pair it is defined on
Computable(a, o, b) == o = "==" \/ (a.t = b.t /\ a.t \in {"num", "str"})
Holds(a, o, b) ==
    IF o = "==" THEN a = b
    ELSE IF o = ">=" THEN ~(a.v < b.v)
    ELSE IF o = "<=" THEN ~(b.v < a.v)
    ELSE IF o = ">" THEN b.v < a.v
    ELSE a.v < b.v

\* C6: eval_condition returns the correct boolean for the five operators on
\* every pair the comparison is defined on, and False, with no exception,
\* for any other operator and any pair that cannot be compared.
C6_EvalCondition ==
    result # "pending" =>
        IF op \in {">=", "<=", ">", "<", "=="} /\ Computable(value, op, target)
        THEN result = (IF Holds(value, op, target) THEN "True" ELSE "False")
        ELSE result = "False"

C6_Witness ==
    /\ result = "True"
    /\ op = ">="
    /\ value = target
    /\ value.t = "num"

\* a rule collection of the documented schema: every condition a triple,
\* every rule with an action, every priority a number or absent
WellFormed(rs) ==
    \A n \in 1..Len(rs) :
        /\ "action" \in rs[n].keys
        /\ "priority" \in rs[n].keys => rs[n].priority.t = "num"
        /\ \A k \in 1..Len(rs[n].conditions) : Len(rs[n].conditions[k]) = 3

\* C7 as stated: evaluate_rules raises under no input whatever.
C7_NeverRaises == pc # "raised"

\* C7 amended: evaluate_rules raises nothing on a well-formed rule
\* collection; a missing field, an unsupported operator and a value that
\* cannot be compared only fail the condition.
C7_NoRaiseWhenWellFormed == WellFormed(rules) => pc # "raised"

C7_Witness ==
    /\ pc = "done"
    /\ WellFormed(rules)
    /\ applicant = [cgpa |-> Str(1), family_income |-> Num(2)]
    /\ \E n \in 1..Len(rules) : rules[n].conditions = <<condCgpa, condBadOp>>
    /\ \E n \in 1..Len(rules) : rules[n].conditions = <<condCgpa>>

\* C8: a call leaves the applicant and the rule collection as they were, and
\* a repeated call on the same arguments returns the same result.
C8_Pure ==
    /\ applicant = applicant0
    /\ rules = rules0
    /\ (calls >= 2 /\ pc \in {"done", "raised"}) => Outcome = last

C8_Witness ==
    /\ calls = 2
    /\ pc = "done"
    /\ Len(matched_sorted) = 2
    /\ matched_sorted[1] = rules[2]
    /\ last.matched_sorted = matched_sorted

Scenario5 ==
    [cgpa |-> Num(390), co_curricular_score |-> Num(90),
     family_income |-> Num(3000), disciplinary_actions |-> Num(0)]

PrioritiesOf(seq) == [k \in 1..Len(seq) |-> seq[k].priority.v]

\* C9 as stated: scenario 5 selects AWARD_FULL and the matched rules are
\* those of priority 100 and 70, in that order.
C9_Original ==
    (pc = "done" /\ applicant = Scenario5) =>
        /\ selected.decision = "AWARD_FULL"
        /\ PrioritiesOf(matched_sorted) = <<100, 70>>

\* C9 amended: scenario 5 selects AWARD_FULL and the matched rules are "Top
\* merit candidate", "Good candidate - partial scholarship" and "Need-based
\* review", of priorities 100, 80 and 70 in that order.
C9_Scenario5 ==
    (pc = "done" /\ applicant = Scenario5) =>
        /\ selected.decision = "AWARD_FULL"
        /\ matched_sorted = <<RULES[1], RULES[2], RULES[3]>>
        /\ PrioritiesOf(matched_sorted) = <<100, 80, 70>>

C9_Witness ==
    /\ pc = "done"
    /\ applicant = Scenario5
    /\ rules = RULES
    /\ Len(matched_sorted) = 3

\* C10: with the embedded rules, an applicant with cgpa below 2.5 or with
\* two or more disciplinary actions is rejected whatever its other fields.
C10_RejectOverrides ==
    (/\ pc = "done"
     /\ DOMAIN applicant = {"cgpa", "co_curricular_score", "family_income",
                            "disciplinary_actions"}
     /\ (applicant.cgpa.v < 250 \/ applicant.disciplinary_actions.v >= 2))
    => selected.decision = "REJECT"

C10_Witness ==
    /\ pc = "done"
    /\ rules = RULES
    /\ applicant.cgpa.v >= 250
    /\ applicant.disciplinary_actions.v >= 2
    /\ applicant.family_income.v <= 4000
    /\ Len(matched_sorted) = 2
    /\ selected.decision = "REJECT"

====
